---- MODULE Spec2Model ----
(***************************************************************************)
(* Model of the YouTube script generator front end:                        *)
(*   - ImageGenerationSection (per-topic image orchestrator):              *)
(*     generateOne / generateAll over the TopicItem list;                  *)
(*   - ScriptGenerator (UI handler generateScript) and                     *)
(*     ScriptGeneratorAPI (provider dispatcher and its five adapters).     *)
(* Every event handler runs to its first real suspension point (a pending  *)
(* network call) in one step; the continuation after the call is a second  *)
(* step.  A handler sees the props/state of the render in which it was     *)
(* created, so an async handler keeps the items / provider it captured.    *)
(***************************************************************************)
EXTENDS Integers, Sequences, FiniteSets, TLC

\* ------------------------------------------------------------------ bounds
NumTopics == 2        \* topics extracted from the script
MaxRuns == 1          \* generateAll invocations that get past the key check
MaxClicks == 1        \* per-item button clicks that dispatch a request
MaxLines == 3         \* lines of a script composed line by line

\* --------------------------------------------------------------- constants
Undefined == "undefined"                 \* absent optional field / null
Keys == {"k1"}                           \* credentials a user may save
Urls == {"u1", "u2"}                     \* URLs the image service may return
ErrorMessages == {"", "quota"}           \* e?.message of a rejected call
ImageProviders == {"leonardo", "kling"}

VARIABLES
    script,              \* the script prop of ImageGenerationSection
    provider,            \* useState<"leonardo" | "kling">
    items,               \* useState<TopicItem[]>
    showLeonardoModal,
    showKlingModal,
    localStorage,        \* keyName -> stored credential or Undefined
    toast,               \* the notification shown last
    runs,                \* generateAll invocations (captured items, loop position)
    inflight,            \* pending generateLeonardoImage calls
    nreq,                \* image calls issued so far
    selectedProvider,    \* useState<AIProvider>: the id of the catalogue entry
    scriptData,          \* useState<ScriptData>
    generatedScript,
    isLoading,
    showAPIModal,
    textPending,         \* ScriptGeneratorAPI.generateScript calls awaiting a response
    apiCall              \* the ScriptGeneratorAPI.generateScript call that acted last

imageVars == <<script, provider, items, showLeonardoModal, showKlingModal, runs,
               inflight, nreq>>

textVars == <<selectedProvider, scriptData, generatedScript, isLoading,
              showAPIModal, textPending, apiCall>>

vars == <<imageVars, textVars, localStorage, toast>>

\* ------------------------------------------------------ provider catalogue
LEONARDO_PROVIDER == [id |-> "leonardo", name |-> "Leonardo AI",
                      keyName |-> "leonardo_api_key"]

KLING_PROVIDER == [id |-> "kling", name |-> "Kling AI",
                   keyName |-> "kling_api_key"]

ImageKeyNames == {LEONARDO_PROVIDER.keyName, KLING_PROVIDER.keyName}

\* ------------------------------------------------------------------ strings
Char(s, i) == SubSeq(s, i, i)

Drop(s, n) == SubSeq(s, n + 1, Len(s))

Take(s, n) == SubSeq(s, 1, IF n < Len(s) THEN n ELSE Len(s))

MinOf(S) == CHOOSE x \in S : \A y \in S : x <= y

MaxOf(S) == CHOOSE x \in S : \A y \in S : y <= x

\* \s, as far as the scripts here go
Whitespace == {" ", "\t", "\r", "\n"}

\* \d
Digits == {"0", "1", "2", "3", "4", "5", "6", "7", "8", "9"}

\* String.prototype.trim
trim(s) ==
    LET ns == {i \in 1..Len(s) : Char(s, i) \notin Whitespace}
    IN  IF ns = {} THEN "" ELSE SubSeq(s, MinOf(ns), MaxOf(ns))

\* the length of the longest prefix of s made of characters of cs
Leading(s, cs) ==
    LET other == {i \in 1..Len(s) : Char(s, i) \notin cs}
    IN  IF other = {} THEN Len(s) ELSE MinOf(other) - 1

UpperCase == "ABCDEFGHIJKLMNOPQRSTUVWXYZ"

LowerCase == "abcdefghijklmnopqrstuvwxyz"

\* the i flag of a regular expression: letters compare in lower case
RECURSIVE toLowerCase(_)
toLowerCase(s) ==
    IF s = "" THEN ""
    ELSE LET c == Char(s, 1)
             up == {i \in 1..Len(UpperCase) : Char(UpperCase, i) = c}
         IN  (IF up = {} THEN c ELSE Char(LowerCase, MinOf(up)))
                 \o toLowerCase(Drop(s, 1))

\* script.split(/\r?\n/)
RECURSIVE SplitLines(_)
SplitLines(s) ==
    LET nl == {i \in 1..Len(s) : Char(s, i) = "\n"} IN
    IF nl = {} THEN <<s>>
    ELSE LET i == MinOf(nl)
             cr == i > 1 /\ Char(s, i - 1) = "\r"
         IN  <<Take(s, IF cr THEN i - 2 ELSE i - 1)>> \o SplitLines(Drop(s, i))

\* ----------------------------------------------------------- extractTopics
MaxHashes == 6             \* #{1,6}
MinTitleLength == 3        \* t.length > 3
MaxParagraphs == 6         \* paragraphs.slice(0, 6)
MaxSentenceLength == 90    \* .slice(0, 90)
MaxTopics == 20            \* topics.slice(0, 20)

\* /^#{1,6}\s+/ : the length of the match, 0 when the line does not match
HeadingMatch(line) ==
    LET h == Leading(line, {"#"})
        w == Leading(Drop(line, h), Whitespace)
    IN  IF h >= 1 /\ h <= MaxHashes /\ w >= 1 THEN h + w ELSE 0

\* /^\d+[\.|\)]\s+/
NumberedMatch(line) ==
    LET d == Leading(line, Digits)
        w == Leading(Drop(line, d + 1), Whitespace)
    IN  IF d >= 1 /\ d < Len(line) /\ Char(line, d + 1) \in {".", "|", ")"}
           /\ w >= 1
        THEN d + 1 + w ELSE 0

\* (t[.o]pico|se[c.][a.]o|cap[.i]tulo|parte): the spellings made of ASCII
\* letters; the other members of the three classes are not ASCII and no
\* script here holds one
KeywordForms == {"topico", "secao", "capitulo", "parte"}

\* /^(...)[:\-]\s+/i
KeywordMatch(line) ==
    LET ws == {k \in KeywordForms :
                  /\ Len(k) < Len(line)
                  /\ toLowerCase(Take(line, Len(k))) = k
                  /\ Char(line, Len(k) + 1) \in {":", "-"}
                  /\ Leading(Drop(line, Len(k) + 1), Whitespace) >= 1}
    IN  IF ws = {} THEN 0
        ELSE LET k == CHOOSE k \in ws : TRUE
             IN  Len(k) + 1 + Leading(Drop(line, Len(k) + 1), Whitespace)

\* the length of the prefix the first matching pattern removes
PatternMatch(line) ==
    IF HeadingMatch(line) > 0 THEN HeadingMatch(line)
    ELSE IF NumberedMatch(line) > 0 THEN NumberedMatch(line)
    ELSE KeywordMatch(line)

Accept_NoSeen(topics, t) ==
    IF Len(t) > MinTitleLength THEN Append(topics, t) ELSE topics

\* if (t.length > 3 && !seen.has(t)) { topics.push(t); seen.add(t); }
Accept(topics, t) ==
    IF Len(t) > MinTitleLength /\ \A i \in DOMAIN topics : topics[i] # t
    THEN Append(topics, t) ELSE topics

\* the loop over the lines
RECURSIVE PatternTopics(_, _)
PatternTopics(lines, topics) ==
    IF lines = <<>> THEN topics
    ELSE LET line == trim(Head(lines))
             m == PatternMatch(line)
         IN  PatternTopics(Tail(lines),
                 IF line = "" \/ m = 0 THEN topics
                 ELSE Accept(topics, trim(Drop(line, m))))

\* script.split(/\n\s*\n/)
RECURSIVE SplitParagraphs(_)
SplitParagraphs(s) ==
    LET LastNewline(i) ==
            LET run == Leading(Drop(s, i), Whitespace)
                nl == {j \in (i + 1)..(i + run) : Char(s, j) = "\n"}
            IN  IF nl = {} THEN 0 ELSE MaxOf(nl)
        seps == {i \in 1..Len(s) : Char(s, i) = "\n" /\ LastNewline(i) > 0}
    IN  IF seps = {} THEN <<s>>
        ELSE LET i == MinOf(seps)
             IN  <<Take(s, i - 1)>> \o SplitParagraphs(Drop(s, LastNewline(i)))

\* .map((p) => p.trim()).filter(Boolean)
RECURSIVE TrimmedNonEmpty(_)
TrimmedNonEmpty(ps) ==
    IF ps = <<>> THEN <<>>
    ELSE (IF trim(Head(ps)) = "" THEN <<>> ELSE <<trim(Head(ps))>>)
             \o TrimmedNonEmpty(Tail(ps))

\* p.split(/\.|\!|\?/)[0].slice(0, 90).trim()
FirstSentence(p) ==
    LET ends == {i \in 1..Len(p) : Char(p, i) \in {".", "!", "?"}}
    IN  trim(Take(IF ends = {} THEN p ELSE Take(p, MinOf(ends) - 1),
                  MaxSentenceLength))

RECURSIVE FallbackTopics(_, _)
FallbackTopics(paragraphs, topics) ==
    IF paragraphs = <<>> THEN topics
    ELSE FallbackTopics(Tail(paragraphs),
                        Accept(topics, FirstSentence(Head(paragraphs))))

\* if (topics.length === 0): nothing was pushed by the loop over the lines
FallbackUsed(s) == s # "" /\ PatternTopics(SplitLines(s), <<>>) = <<>>

extractTopics(s) ==
    IF s = "" THEN <<>>
    ELSE LET found == PatternTopics(SplitLines(s), <<>>)
             topics == IF found = <<>>
                       THEN FallbackTopics(
                                Take(TrimmedNonEmpty(SplitParagraphs(s)),
                                     MaxParagraphs), <<>>)
                       ELSE found
         IN  Take(topics, MaxTopics)

\* ---------------------------------------------------------------- scripts
RECURSIVE JoinLines(_)
JoinLines(ls) ==
    IF ls = <<>> THEN ""
    ELSE IF Len(ls) = 1 THEN ls[1]
    ELSE ls[1] \o "\n" \o JoinLines(Tail(ls))

\* a script of numbered sections: "1. <title>", "2. <title>", ...
NumberedScript(titles) ==
    JoinLines([i \in DOMAIN titles |-> ToString(i) \o ". " \o titles[i]])

\* ------------------------------------------------------------- topic items
TitlePool == <<"Intro", "Main Point", "Outro", "Extra">>

Topics == SubSeq(TitlePool, 1, NumTopics)

\* the script the section is mounted with
InitialScript == NumberedScript(Topics)

\* useEffect: one item per extracted topic, id topic-<idx>, prompt = title
Initialized(topics) ==
    [i \in DOMAIN topics |->
        [id |-> i - 1, title |-> topics[i], prompt |-> topics[i],
         imageUrl |-> Undefined, loading |-> FALSE, error |-> Undefined]]

\* prev.map((x) => (x.id === id ? f(x) : x)), given mapped[i] = f(prev[i])
MapItem(prev, id, mapped) ==
    [i \in DOMAIN prev |-> IF prev[i].id = id THEN mapped[i] ELSE prev[i]]

\* { ...x, loading: true, error: undefined }
StartLoading(x) == [x EXCEPT !.loading = TRUE, !.error = Undefined]

\* { ...x, imageUrl: url, loading: false }
StoreImage(x, url) == [x EXCEPT !.imageUrl = url, !.loading = FALSE]

\* e?.message || "Erro"
ErrorText(msg) == IF msg = "" THEN "Erro" ELSE msg

\* { ...x, loading: false, error: e?.message || "Erro" }
StoreError(x, msg) == [x EXCEPT !.loading = FALSE, !.error = ErrorText(msg)]

\* items.find((x) => x.id === id)
HasItem(its, id) == \E i \in DOMAIN its : its[i].id = id

FindItem(its, id) ==
    its[CHOOSE i \in DOMAIN its :
           its[i].id = id /\ \A j \in DOMAIN its : its[j].id = id => i <= j]

\* per-item button: disabled={!!it.loading}
ItemButtonDisabled(it) == it.loading

\* generate-all button: it has no disabled attribute
GenerateAllDisabled == FALSE

SkipItem_Never(it) == FALSE

\* generateAll: if (it.imageUrl) continue
SkipItem(it) == it.imageUrl # Undefined

\* ------------------------------------------------------------------ toasts
NoToast == [title |-> "", description |-> "", variant |-> ""]

KeyToast(prov) ==
    [title |-> "API key necessaria",
     description |-> IF prov = "leonardo" THEN "Configure a API do Leonardo."
                     ELSE "Configure a API do Kling.",
     variant |-> "default"]

KlingToastOne ==
    [title |-> "Kling AI",
     description |-> "Integracao em breve. Forneca endpoint/documentacao para habilitar.",
     variant |-> "destructive"]

KlingToastAll ==
    [title |-> "Kling AI", description |-> "Integracao em breve.",
     variant |-> "destructive"]

ImageToast(title) ==
    [title |-> "Imagem gerada", description |-> title, variant |-> "default"]

ImageFailToast(msg) ==
    [title |-> "Falha ao gerar imagem", description |-> ErrorText(msg),
     variant |-> "destructive"]

\* ---------------------------------------------------------------- ensureKey
KeyNameOf(prov) ==
    IF prov = "leonardo" THEN LEONARDO_PROVIDER.keyName ELSE KLING_PROVIDER.keyName

ensureKey_Fallback(prov) ==
    IF localStorage[KeyNameOf(prov)] = Undefined THEN "k1"
    ELSE localStorage[KeyNameOf(prov)]

\* ensureKey: the value it returns (null when the stored key is absent)
ensureKey(prov) == localStorage[KeyNameOf(prov)]

\* ensureKey: what it does to the UI when the key is absent
PromptForKey(prov, ui) ==
    [ui EXCEPT !.leonardoModal = IF prov = "leonardo" THEN TRUE ELSE @,
               !.klingModal = IF prov = "leonardo" THEN @ ELSE TRUE,
               !.toast = KeyToast(prov)]

\* -------------------------------------------------------------- generateOne
(* The part of generateOne(id) that runs before it suspends, for the       *)
(* handler created in a render with items = cItems and provider =          *)
(* cProvider.  ui = [items, toast, leonardoModal, klingModal] is the       *)
(* component state it updates.  kind tells how it ended; call is the       *)
(* pending generateLeonardoImage call when kind = "dispatch".              *)
NoCall == [id |-> -1, title |-> "", prompt |-> "", key |-> Undefined]

generateOne_KlingError(cItems, cProvider, id, ui) ==
    IF ~HasItem(cItems, id)
    THEN [kind |-> "noitem", ui |-> ui, call |-> NoCall]
    ELSE IF cProvider = "kling"
    THEN [kind |-> "kling",
          ui |-> [ui EXCEPT !.items =
                     MapItem(@, id, [i \in DOMAIN @ |->
                                        StoreError(@[i], "Integracao em breve.")])],
          call |-> NoCall]
    ELSE IF ensureKey("leonardo") = Undefined
    THEN [kind |-> "nokey", ui |-> PromptForKey("leonardo", ui), call |-> NoCall]
    ELSE [kind |-> "dispatch",
          ui |-> [ui EXCEPT !.items = MapItem(@, id, [i \in DOMAIN @ |-> StartLoading(@[i])])],
          call |-> [id |-> id,
                    title |-> FindItem(cItems, id).title,
                    prompt |-> FindItem(cItems, id).prompt,
                    key |-> ensureKey("leonardo")]]

generateOne_NoKlingCheck(cItems, cProvider, id, ui) ==
    IF ~HasItem(cItems, id)
    THEN [kind |-> "noitem", ui |-> ui, call |-> NoCall]
    ELSE IF ensureKey("leonardo") = Undefined
    THEN [kind |-> "nokey", ui |-> PromptForKey("leonardo", ui), call |-> NoCall]
    ELSE [kind |-> "dispatch",
          ui |-> [ui EXCEPT !.items = MapItem(@, id, [i \in DOMAIN @ |-> StartLoading(@[i])])],
          call |-> [id |-> id,
                    title |-> FindItem(cItems, id).title,
                    prompt |-> FindItem(cItems, id).prompt,
                    key |-> ensureKey("leonardo")]]

generateOne(cItems, cProvider, id, ui) ==
    IF ~HasItem(cItems, id)
    THEN [kind |-> "noitem", ui |-> ui, call |-> NoCall]
    ELSE IF cProvider = "kling"
    THEN [kind |-> "kling", ui |-> [ui EXCEPT !.toast = KlingToastOne],
          call |-> NoCall]
    ELSE IF ensureKey("leonardo") = Undefined
    THEN [kind |-> "nokey", ui |-> PromptForKey("leonardo", ui), call |-> NoCall]
    ELSE [kind |-> "dispatch",
          ui |-> [ui EXCEPT !.items = MapItem(@, id, [i \in DOMAIN @ |-> StartLoading(@[i])])],
          call |-> [id |-> id,
                    title |-> FindItem(cItems, id).title,
                    prompt |-> FindItem(cItems, id).prompt,
                    key |-> ensureKey("leonardo")]]

\* generateOne after the awaited call: try branch / catch branch
OnResolved(call, url, ui) ==
    [ui EXCEPT !.items = MapItem(@, call.id, [i \in DOMAIN @ |-> StoreImage(@[i], url)]),
               !.toast = ImageToast(call.title)]

OnRejected_ToastOnly(call, msg, ui) == [ui EXCEPT !.toast = ImageFailToast(msg)]

OnRejected(call, msg, ui) ==
    [ui EXCEPT !.items = MapItem(@, call.id, [i \in DOMAIN @ |-> StoreError(@[i], msg)]),
               !.toast = ImageFailToast(msg)]

\* -------------------------------------------------------------- generateAll
Suspends_Never(kind) == FALSE

\* await generateOne(it.id): the loop is suspended while a call is pending
Suspends(kind) == kind = "dispatch"

(* The for-loop of generateAll from position pos of the captured items,   *)
(* up to its next suspension: calls holds the image calls it issued.       *)
RECURSIVE Loop(_, _, _, _)
Loop(r, pos, ui, calls) ==
    IF pos > Len(r.snap)
    THEN [done |-> TRUE, pos |-> pos, ui |-> ui, calls |-> calls]
    ELSE IF SkipItem(r.snap[pos])
    THEN Loop(r, pos + 1, ui, calls)
    ELSE LET g == generateOne(r.snap, r.provider, r.snap[pos].id, ui)
             cs == IF g.kind = "dispatch" THEN Append(calls, g.call) ELSE calls
         IN  IF Suspends(g.kind)
             THEN [done |-> FALSE, pos |-> pos + 1, ui |-> g.ui, calls |-> cs]
             ELSE Loop(r, pos + 1, g.ui, cs)

\* ------------------------------------------------- text provider catalogue
(* AI_PROVIDERS (types/ai-providers): the entries the provider selector    *)
(* offers.  The last entry stands for a catalogue entry that the           *)
(* dispatcher has no adapter for.                                          *)
AI_PROVIDERS ==
    << [id |-> "gemini", name |-> "Gemini", keyName |-> "gemini_api_key"],
       [id |-> "openai", name |-> "ChatGPT", keyName |-> "openai_api_key"],
       [id |-> "claude", name |-> "Claude", keyName |-> "claude_api_key"],
       [id |-> "grok", name |-> "Grok", keyName |-> "grok_api_key"],
       [id |-> "mistral", name |-> "Mistral", keyName |-> "mistral_api_key"],
       [id |-> "unknown-id", name |-> "Unknown", keyName |-> "unknown_api_key"] >>

ProviderIds == {AI_PROVIDERS[i].id : i \in DOMAIN AI_PROVIDERS}

ProviderOf(id) == AI_PROVIDERS[CHOOSE i \in DOMAIN AI_PROVIDERS : AI_PROVIDERS[i].id = id]

TextKeyNames == {AI_PROVIDERS[i].keyName : i \in DOMAIN AI_PROVIDERS}

\* ------------------------------------------------------ ScriptGeneratorAPI
\* buildPrompt: the template literal, with the fields it interpolates
buildPrompt(sd) ==
    "\nCrie um roteiro detalhado para um vídeo do YouTube com as seguintes especificações:\n\n"
    \o "**Tópico:** " \o sd.topic \o "\n"
    \o "**Duração:** " \o sd.duration \o " minutos\n"
    \o "**Estilo:** " \o sd.style \o "\n"
    \o "**Público-alvo:** "
    \o (IF sd.audience = "" THEN "Geral" ELSE sd.audience) \o "\n"
    \o "**Informações adicionais:** "
    \o (IF sd.additionalInfo = "" THEN "Nenhuma" ELSE sd.additionalInfo) \o "\n"
    \o "\nO roteiro deve incluir:\n"
    \o "1. Hook inicial (primeiros 15 segundos)\n"
    \o "2. Introdução e apresentação do problema/tópico\n"
    \o "3. Desenvolvimento do conteúdo principal (dividido em seções)\n"
    \o "4. Call-to-action para inscrição e likes\n"
    \o "5. Conclusão e próximos passos\n"
    \o "6. Outro (final do vídeo)\n"
    \o "\nFormate o roteiro de forma clara, com indicações de tempo aproximado para cada seção.\n"
    \o "Use uma linguagem envolvente e adequada para YouTube.\n"
    \o "Inclua sugestões de elementos visuais quando relevante.\n"

\* the fetch each adapter issues
callGemini(apiKey, prompt) ==
    [adapter |-> "Gemini",
     url |-> "https://generativelanguage.googleapis.com/v1beta/models/gemini-pro:generateContent",
     credential |-> "query", key |-> apiKey, prompt |-> prompt]

callOpenAI(apiKey, prompt) ==
    [adapter |-> "OpenAI", url |-> "https://api.openai.com/v1/chat/completions",
     credential |-> "bearer", key |-> apiKey, prompt |-> prompt]

callClaude(apiKey, prompt) ==
    [adapter |-> "Claude", url |-> "https://api.anthropic.com/v1/messages",
     credential |-> "x-api-key", key |-> apiKey, prompt |-> prompt]

callGrok(apiKey, prompt) ==
    [adapter |-> "Grok", url |-> "https://api.x.ai/v1/chat/completions",
     credential |-> "bearer", key |-> apiKey, prompt |-> prompt]

callMistral(apiKey, prompt) ==
    [adapter |-> "Mistral", url |-> "https://api.mistral.ai/v1/chat/completions",
     credential |-> "bearer", key |-> apiKey, prompt |-> prompt]

\* the path each adapter reads the text from
UnwrapPath(adapter) ==
    CASE adapter = "Gemini" -> "candidates[0].content.parts[0].text"
      [] adapter = "Claude" -> "content[0].text"
      [] OTHER -> "choices[0].message.content"

Dispatch_DefaultMistral(id, apiKey, prompt) ==
    CASE id = "gemini" -> [fetches |-> <<callGemini(apiKey, prompt)>>, error |-> <<>>]
      [] id = "openai" -> [fetches |-> <<callOpenAI(apiKey, prompt)>>, error |-> <<>>]
      [] id = "claude" -> [fetches |-> <<callClaude(apiKey, prompt)>>, error |-> <<>>]
      [] id = "grok" -> [fetches |-> <<callGrok(apiKey, prompt)>>, error |-> <<>>]
      [] OTHER -> [fetches |-> <<callMistral(apiKey, prompt)>>, error |-> <<>>]

Dispatch_GrokViaOpenAI(id, apiKey, prompt) ==
    CASE id = "gemini" -> [fetches |-> <<callGemini(apiKey, prompt)>>, error |-> <<>>]
      [] id = "openai" -> [fetches |-> <<callOpenAI(apiKey, prompt)>>, error |-> <<>>]
      [] id = "claude" -> [fetches |-> <<callClaude(apiKey, prompt)>>, error |-> <<>>]
      [] id = "grok" -> [fetches |-> <<callOpenAI(apiKey, prompt)>>, error |-> <<>>]
      [] id = "mistral" -> [fetches |-> <<callMistral(apiKey, prompt)>>, error |-> <<>>]
      [] OTHER -> [fetches |-> <<>>, error |-> <<"Provider", id, "nao suportado">>]

(* generateScript up to its suspension: the fetches it issues, or the      *)
(* error it throws before issuing any                                      *)
Dispatch(id, apiKey, prompt) ==
    CASE id = "gemini" -> [fetches |-> <<callGemini(apiKey, prompt)>>, error |-> <<>>]
      [] id = "openai" -> [fetches |-> <<callOpenAI(apiKey, prompt)>>, error |-> <<>>]
      [] id = "claude" -> [fetches |-> <<callClaude(apiKey, prompt)>>, error |-> <<>>]
      [] id = "grok" -> [fetches |-> <<callGrok(apiKey, prompt)>>, error |-> <<>>]
      [] id = "mistral" -> [fetches |-> <<callMistral(apiKey, prompt)>>, error |-> <<>>]
      [] OTHER -> [fetches |-> <<>>, error |-> <<"Provider", id, "nao suportado">>]

(* The responses a fetch may get: the promise rejects (no response), or a  *)
(* response arrives with a status and a body holding a text at some path.  *)
Texts == {"script A", "script B"}

Paths == {"candidates[0].content.parts[0].text", "content[0].text",
          "choices[0].message.content"}

Responses ==
    {[arrived |-> FALSE, ok |-> FALSE, path |-> "", text |-> ""]}
    \cup {[arrived |-> TRUE, ok |-> FALSE, path |-> "", text |-> ""]}
    \cup {[arrived |-> TRUE, ok |-> TRUE, path |-> p, text |-> t] :
             p \in Paths, t \in Texts \cup {Undefined}}

AdapterResult_NoStatusCheck(adapter, resp) ==
    IF ~resp.arrived
    THEN [status |-> "threw", error |-> <<"TypeError", "Failed to fetch">>, text |-> ""]
    ELSE IF resp.path # UnwrapPath(adapter)
    THEN [status |-> "threw", error |-> <<"TypeError", "undefined">>, text |-> ""]
    ELSE [status |-> "returned", error |-> <<>>, text |-> resp.text]

\* an adapter after its fetch settled: the text it returns or the error it throws
AdapterResult(adapter, resp) ==
    IF ~resp.arrived
    THEN [status |-> "threw", error |-> <<"TypeError", "Failed to fetch">>, text |-> ""]
    ELSE IF ~resp.ok
    THEN [status |-> "threw", error |-> <<"Erro ao gerar roteiro com", adapter>>,
          text |-> ""]
    ELSE IF resp.path # UnwrapPath(adapter)
    THEN [status |-> "threw", error |-> <<"TypeError", "undefined">>, text |-> ""]
    ELSE [status |-> "returned", error |-> <<>>, text |-> resp.text]

\* --------------------------------------------------- ScriptGenerator (UI)
EmptyScriptData ==
    [topic |-> "", duration |-> "", style |-> "", styleKeywords |-> "",
     language |-> "", audience |-> "", additionalInfo |-> ""]

RequiredMissing_TopicOnly(sd) == sd.topic = ""

RequiredMissing(sd) == sd.topic = "" \/ sd.duration = "" \/ sd.style = ""

RequiredToast ==
    [title |-> "Campos obrigatorios",
     description |-> "Preencha pelo menos o topico, duracao e estilo do video.",
     variant |-> "destructive"]

\* the handler names the provider it was created with
ScriptToast(name) ==
    [title |-> "Roteiro gerado!", description |-> name, variant |-> "default"]

ScriptFailToast(name) ==
    [title |-> "Erro ao gerar roteiro", description |-> name,
     variant |-> "destructive"]

\* generate button: disabled={isLoading}
GenerateDisabled_Never == FALSE

GenerateDisabled == isLoading

\* how the fetch of a call ended
HttpOf(resp) ==
    IF ~resp.arrived THEN "rejected" ELSE IF resp.ok THEN "2xx" ELSE "non-2xx"

NoApiCall == [id |-> "", fetches |-> <<>>, http |-> "none", status |-> "none",
              error |-> <<>>, text |-> ""]

\* ------------------------------------------------------------------- state
UI == [items |-> items, toast |-> toast,
       leonardoModal |-> showLeonardoModal, klingModal |-> showKlingModal]

SetUI(ui) ==
    /\ items' = ui.items
    /\ toast' = ui.toast
    /\ showLeonardoModal' = ui.leonardoModal
    /\ showKlingModal' = ui.klingModal

Issue_RunKey(calls, run, pending) ==
    /\ inflight' = pending \cup
           {[rid |-> nreq + k, run |-> run, id |-> calls[k].id,
             title |-> calls[k].title, prompt |-> calls[k].prompt,
             key |-> IF run \in DOMAIN runs THEN runs[run].key
                     ELSE calls[k].key] : k \in DOMAIN calls}
    /\ nreq' = nreq + Len(calls)

\* the pending calls made of the calls a handler issued, numbered from nreq
Issue(calls, run, pending) ==
    /\ inflight' = pending \cup
           {[rid |-> nreq + k, run |-> run, id |-> calls[k].id,
             title |-> calls[k].title, prompt |-> calls[k].prompt,
             key |-> calls[k].key] : k \in DOMAIN calls}
    /\ nreq' = nreq + Len(calls)

IssuedOf(calls) == [k \in DOMAIN calls |-> calls[k].id]

RECURSIVE SumIssued(_)
SumIssued(k) == IF k = 0 THEN 0 ELSE Len(runs[k].issued) + SumIssued(k - 1)

\* image calls dispatched by a per-item button
Clicked == nreq - SumIssued(Len(runs))

Init ==
    /\ provider = "leonardo"
    /\ script = InitialScript
    /\ items = Initialized(extractTopics(script))
    /\ showLeonardoModal = FALSE
    /\ showKlingModal = FALSE
    /\ localStorage = [k \in ImageKeyNames \cup TextKeyNames |-> Undefined]
    /\ toast = NoToast
    /\ runs = <<>>
    /\ inflight = {}
    /\ nreq = 0
    /\ selectedProvider = AI_PROVIDERS[1].id
    /\ scriptData = EmptyScriptData
    /\ generatedScript = ""
    /\ isLoading = FALSE
    /\ showAPIModal = FALSE
    /\ textPending = {}
    /\ apiCall = NoApiCall

\* ----------------------------------------------------------------- actions
\* <Select onValueChange={(v) => setProvider(v)}>
SetProvider(v) ==
    /\ provider' = v
    /\ UNCHANGED <<items, showLeonardoModal, showKlingModal, localStorage,
                   toast, runs, inflight, nreq, textVars, script>>

\* the "API" button
OpenKeyModal ==
    /\ IF provider = "leonardo"
       THEN showLeonardoModal' = TRUE /\ UNCHANGED showKlingModal
       ELSE showKlingModal' = TRUE /\ UNCHANGED showLeonardoModal
    /\ UNCHANGED <<provider, items, localStorage, toast, runs, inflight, nreq, textVars, script>>

\* APIKeyModal onClose
CloseKeyModal(prov) ==
    /\ IF prov = "leonardo"
       THEN showLeonardoModal /\ showLeonardoModal' = FALSE
            /\ UNCHANGED showKlingModal
       ELSE showKlingModal /\ showKlingModal' = FALSE
            /\ UNCHANGED showLeonardoModal
    /\ UNCHANGED <<provider, items, localStorage, toast, runs, inflight, nreq, textVars, script>>

\* APIKeyModal save: the key is stored under the provider's keyName
SaveKey(prov, key) ==
    /\ IF prov = "leonardo" THEN showLeonardoModal ELSE showKlingModal
    /\ localStorage' = [localStorage EXCEPT ![KeyNameOf(prov)] = key]
    /\ UNCHANGED <<provider, items, showLeonardoModal, showKlingModal, toast,
                   runs, inflight, nreq, textVars, script>>

\* per-item button onClick={() => generateOne(it.id)}
ClickGenerateOne(i) ==
    /\ i \in DOMAIN items
    /\ ~ItemButtonDisabled(items[i])
    /\ LET g == generateOne(items, provider, items[i].id, UI)
           calls == IF g.kind = "dispatch" THEN <<g.call>> ELSE <<>>
       IN  /\ g.kind = "dispatch" => Clicked < MaxClicks
           /\ SetUI(g.ui)
           /\ Issue(calls, 0, inflight)
    /\ UNCHANGED <<provider, localStorage, runs, textVars, script>>

\* generate-all button onClick={generateAll}
ClickGenerateAll ==
    /\ ~GenerateAllDisabled
    /\ UNCHANGED <<provider, localStorage, textVars, script>>
    /\ IF provider = "kling"
       THEN /\ toast' = KlingToastAll
            /\ UNCHANGED <<items, showLeonardoModal, showKlingModal, runs,
                           inflight, nreq>>
       ELSE IF ensureKey("leonardo") = Undefined
       THEN /\ SetUI(PromptForKey("leonardo", UI))
            /\ UNCHANGED <<runs, inflight, nreq>>
       ELSE /\ Len(runs) < MaxRuns
            /\ LET r0 == [snap |-> items, provider |-> provider]
                   res == Loop(r0, 1, UI, <<>>)
               IN  /\ runs' = Append(runs,
                                [snap |-> items, provider |-> provider,
                                 key |-> ensureKey("leonardo"),
                                 pos |-> res.pos,
                                 status |-> IF res.done THEN "done" ELSE "awaiting",
                                 issued |-> IssuedOf(res.calls)])
                   /\ SetUI(res.ui)
                   /\ Issue(res.calls, Len(runs) + 1, inflight)

\* a pending generateLeonardoImage call settles; the handler that awaits it
\* resumes, and so does the generateAll loop that awaits that handler
Settle(q, ui1) ==
    /\ UNCHANGED <<provider, localStorage, textVars, script>>
    /\ IF q.run = 0
       THEN /\ SetUI(ui1)
            /\ inflight' = inflight \ {q}
            /\ UNCHANGED <<runs, nreq>>
       ELSE LET r == runs[q.run]
                res == Loop(r, r.pos, ui1, <<>>)
            IN  /\ runs' = [runs EXCEPT ![q.run] =
                              [r EXCEPT !.pos = res.pos,
                                        !.status = IF res.done THEN "done"
                                                   ELSE "awaiting",
                                        !.issued = @ \o IssuedOf(res.calls)]]
                /\ SetUI(res.ui)
                /\ Issue(res.calls, q.run, inflight \ {q})

Resolve(q, url) == q \in inflight /\ Settle(q, OnResolved(q, url, UI))

Reject(q, msg) == q \in inflight /\ Settle(q, OnRejected(q, msg, UI))

\* handlePromptChange: the prompt input of one item is edited
handlePromptChange(id, value) ==
    /\ HasItem(items, id)
    /\ FindItem(items, id).prompt # value
    /\ items' = MapItem(items, id, [i \in DOMAIN items |->
                                        [items[i] EXCEPT !.prompt = value]])
    /\ UNCHANGED <<provider, showLeonardoModal, showKlingModal, localStorage,
                   toast, runs, inflight, nreq, textVars, script>>

\* the parent passes another script: topics is recomputed and the effect
\* replaces the items by fresh ones; pending calls and running loops stay
ChangeScript(s) ==
    /\ s # script
    /\ script' = s
    /\ items' = Initialized(extractTopics(s))
    /\ UNCHANGED <<provider, showLeonardoModal, showKlingModal, localStorage,
                   toast, runs, inflight, nreq, textVars>>

\* ------------------------------------------------- ScriptGenerator actions
\* <ProviderSelector onProviderChange={setSelectedProvider}>
SelectProvider(id) ==
    /\ selectedProvider # id
    /\ selectedProvider' = id
    /\ UNCHANGED <<scriptData, generatedScript, isLoading, showAPIModal,
                   textPending, apiCall, localStorage, toast, imageVars>>

\* form inputs: setScriptData({ ...scriptData, [field]: value })
SetField(field, value) ==
    /\ scriptData[field] # value
    /\ scriptData' = [scriptData EXCEPT ![field] = value]
    /\ UNCHANGED <<selectedProvider, generatedScript, isLoading, showAPIModal,
                   textPending, apiCall, localStorage, toast, imageVars>>

\* APIKeyModal onClose
CloseAPIModal ==
    /\ showAPIModal
    /\ showAPIModal' = FALSE
    /\ UNCHANGED <<selectedProvider, scriptData, generatedScript, isLoading,
                   textPending, apiCall, localStorage, toast, imageVars>>

\* APIKeyModal save, for provider={selectedProvider}
SaveTextKey(key) ==
    /\ showAPIModal
    /\ localStorage' =
           [localStorage EXCEPT ![ProviderOf(selectedProvider).keyName] = key]
    /\ UNCHANGED <<textVars, toast, imageVars>>

\* generate button onClick={generateScript}, up to the awaited fetch
ClickGenerateScript ==
    /\ ~GenerateDisabled
    /\ UNCHANGED <<selectedProvider, scriptData, localStorage, imageVars>>
    /\ LET apiKey == localStorage[ProviderOf(selectedProvider).keyName] IN
       IF apiKey = Undefined
       THEN /\ showAPIModal' = TRUE
            /\ UNCHANGED <<generatedScript, isLoading, textPending, apiCall, toast>>
       ELSE IF RequiredMissing(scriptData)
       THEN /\ toast' = RequiredToast
            /\ UNCHANGED <<generatedScript, isLoading, showAPIModal, textPending,
                           apiCall>>
       ELSE LET d == Dispatch(selectedProvider, apiKey, buildPrompt(scriptData)) IN
            /\ UNCHANGED <<generatedScript, showAPIModal>>
            /\ IF d.fetches = <<>>
               THEN \* the call threw: catch, finally
                    /\ apiCall' = [id |-> selectedProvider, fetches |-> <<>>,
                                   http |-> "none", status |-> "threw",
                                   error |-> d.error, text |-> ""]
                    /\ toast' = ScriptFailToast(ProviderOf(selectedProvider).name)
                    /\ isLoading' = FALSE
                    /\ UNCHANGED textPending
               ELSE /\ apiCall' = [id |-> selectedProvider, fetches |-> d.fetches,
                                   http |-> "none", status |-> "pending",
                                   error |-> <<>>, text |-> ""]
                    /\ textPending' = textPending \cup
                           {[id |-> selectedProvider, fetches |-> d.fetches]}
                    /\ isLoading' = TRUE
                    /\ UNCHANGED toast

\* the fetch of a pending call settles: the adapter finishes, then the
\* handler's try / catch / finally
Respond(c, resp) ==
    /\ c \in textPending
    /\ textPending' = textPending \ {c}
    /\ LET res == AdapterResult(c.fetches[1].adapter, resp) IN
       /\ apiCall' = [id |-> c.id, fetches |-> c.fetches, http |-> HttpOf(resp),
                      status |-> res.status, error |-> res.error,
                      text |-> res.text]
       /\ IF res.status = "returned"
          THEN /\ generatedScript' = res.text
               /\ toast' = ScriptToast(ProviderOf(c.id).name)
          ELSE /\ toast' = ScriptFailToast(ProviderOf(c.id).name)
               /\ UNCHANGED generatedScript
    /\ isLoading' = FALSE
    /\ UNCHANGED <<selectedProvider, scriptData, showAPIModal, localStorage,
                   imageVars>>

RequiredFields == {"topic", "duration", "style"}

FieldValues == {"", "filled"}

NextText ==
    \/ \E id \in ProviderIds : SelectProvider(id)
    \/ \E f \in RequiredFields, v \in FieldValues : SetField(f, v)
    \/ CloseAPIModal
    \/ \E k \in Keys : SaveTextKey(k)
    \/ ClickGenerateScript
    \/ \E c \in textPending, resp \in Responses : Respond(c, resp)

SpecText == Init /\ [][NextText]_vars

\* ------------------------------------------------------------ specifications
Next ==
    \/ \E v \in ImageProviders : SetProvider(v)
    \/ OpenKeyModal
    \/ \E p \in ImageProviders : CloseKeyModal(p)
    \/ \E p \in ImageProviders, k \in Keys : SaveKey(p, k)
    \/ \E i \in 1..NumTopics : ClickGenerateOne(i)
    \/ ClickGenerateAll
    \/ \E q \in inflight, u \in Urls : Resolve(q, u)
    \/ \E q \in inflight, m \in ErrorMessages : Reject(q, m)

Spec == Init /\ [][Next]_vars

(* The two components while no Leonardo key and no script field has been   *)
(* entered: every click ends at a credential or field check.               *)
NextCred ==
    \/ \E v \in ImageProviders : SetProvider(v)
    \/ OpenKeyModal
    \/ \E p \in ImageProviders : CloseKeyModal(p)
    \/ \E k \in Keys : SaveKey("kling", k)
    \/ \E i \in 1..NumTopics : ClickGenerateOne(i)
    \/ ClickGenerateAll
    \/ \E id \in ProviderIds : SelectProvider(id)
    \/ CloseAPIModal
    \/ \E k \in Keys : SaveTextKey(k)
    \/ ClickGenerateScript

SpecCred == Init /\ [][NextCred]_vars

\* what the user types into a prompt input
EditedPrompts == {"edited"}

(* The image section with a prompt input in use.                           *)
NextPrompt ==
    \/ OpenKeyModal
    \/ \E k \in Keys : SaveKey("leonardo", k)
    \/ \E i \in 1..NumTopics, v \in EditedPrompts :
           handlePromptChange(items[i].id, v)
    \/ \E i \in 1..NumTopics : ClickGenerateOne(i)
    \/ ClickGenerateAll
    \/ \E q \in inflight, u \in Urls : Resolve(q, u)
    \/ \E q \in inflight, m \in ErrorMessages : Reject(q, m)

SpecPrompt == Init /\ [][NextPrompt]_vars

\* the topics of a second script
AltTitlePool == <<"Hook", "Body", "Recap", "Bonus">>

AltTopics == SubSeq(AltTitlePool, 1, NumTopics)

\* the second script, written with markdown headings
AltScript == JoinLines([i \in DOMAIN AltTopics |-> "## " \o AltTopics[i]])

Scripts == {InitialScript, AltScript}

(* The image section while the parent replaces the script.                 *)
NextScript ==
    \/ OpenKeyModal
    \/ \E k \in Keys : SaveKey("leonardo", k)
    \/ \E s \in Scripts : ChangeScript(s)
    \/ \E i \in 1..NumTopics : ClickGenerateOne(i)
    \/ ClickGenerateAll
    \/ \E q \in inflight, u \in Urls : Resolve(q, u)
    \/ \E q \in inflight, m \in ErrorMessages : Reject(q, m)

SpecScript == Init /\ [][NextScript]_vars

\* the values a stored key takes when the user replaces it
RotatedKeys == {"k1", "k2"}

\* responses of a text provider that never reached it
Unreached == {r \in Responses : ~r.arrived}

(* The two components while the stored keys are replaced between calls.    *)
NextKeys ==
    \/ OpenKeyModal
    \/ \E k \in RotatedKeys : SaveKey("leonardo", k)
    \/ \E i \in 1..NumTopics : ClickGenerateOne(i)
    \/ ClickGenerateAll
    \/ \E q \in inflight : Resolve(q, "u1")
    \/ \E f \in RequiredFields : SetField(f, "filled")
    \/ \E k \in RotatedKeys : SaveTextKey(k)
    \/ ClickGenerateScript
    \/ \E c \in textPending, resp \in Unreached : Respond(c, resp)

SpecKeys == Init /\ [][NextKeys]_vars

\* the lines a script is composed of: a heading, a numbered section with the
\* same title, a heading with a short title, a labelled part, prose, blank
LinePool == {"# Intro", "1. Intro", "## Hi", "Parte: Final",
             "Era uma vez. Fim", ""}

LineCount(s) == IF s = "" THEN 0 ELSE Len(SplitLines(s))

Appended(s, line) == IF s = "" THEN line ELSE s \o "\n" \o line

ExampleScript == "1. Intro\n2. Main Point\n3. Outro"

\* one numbered section more than the list may hold
LongScript ==
    NumberedScript([i \in 1..(MaxTopics + 1) |-> "Topic " \o ToString(i)])

\* one paragraph more than the fallback reads, no pattern line
LongProse ==
    JoinLines([i \in 1..(2 * MaxParagraphs + 1) |->
                  IF i % 2 = 1
                  THEN "Part " \o ToString((i + 1) \div 2) \o " begins. More"
                  ELSE ""])

SampleScripts == {"", ExampleScript, LongScript, LongProse}

(* The section while the parent passes one script after another.           *)
NextTopics ==
    \/ \E line \in LinePool :
           /\ LineCount(script) < MaxLines
           /\ ChangeScript(Appended(script, line))
    \/ \E s \in SampleScripts : ChangeScript(s)

SpecTopics == Init /\ [][NextTopics]_vars

\* what the user enters into each field of the form
FormInput ==
    [topic |-> "gatos", duration |-> "10", style |-> "educativo",
     styleKeywords |-> "dicas rapidas", language |-> "pt-BR",
     audience |-> "iniciantes", additionalInfo |-> "sem jargao"]

ScriptDataFields == DOMAIN EmptyScriptData

(* The script generator with every field of the form in use and a key of   *)
(* the first provider stored.                                              *)
NextForm ==
    \/ \E f \in ScriptDataFields :
           \E v \in {"", FormInput[f]} : SetField(f, v)
    \/ \E k \in Keys : SaveTextKey(k)
    \/ ClickGenerateScript
    \/ \E c \in textPending, resp \in Unreached : Respond(c, resp)

SpecForm == Init /\ [][NextForm]_vars

\* ==================================================================== claims
ClickOne == \E i \in DOMAIN items : ClickGenerateOne(i)

LeonardoKey == localStorage[LEONARDO_PROVIDER.keyName]

KlingKey == localStorage[KLING_PROVIDER.keyName]

IsPrefix(s, t) == Len(s) <= Len(t) /\ SubSeq(t, 1, Len(s)) = s

\* ids of the captured items that hold no image, in list order
RECURSIVE LackingImage(_)
LackingImage(snap) ==
    IF snap = <<>> THEN <<>>
    ELSE IF Head(snap).imageUrl = Undefined
    THEN <<Head(snap).id>> \o LackingImage(Tail(snap))
    ELSE LackingImage(Tail(snap))

C2_NeverBoth ==
    \A i \in DOMAIN items :
        ~(items[i].imageUrl # Undefined /\ items[i].error # Undefined)

SupportedIds == {"gemini", "openai", "claude", "grok", "mistral"}

(* C3: a generateScript call for an id outside the five supported ones     *)
(* has thrown the error naming that id and has issued no fetch; no such    *)
(* call is ever pending.                                                   *)
C3_UnsupportedFails ==
    /\ (apiCall.status # "none" /\ apiCall.id \notin SupportedIds) =>
           /\ apiCall.status = "threw"
           /\ apiCall.error = <<"Provider", apiCall.id, "nao suportado">>
           /\ apiCall.fetches = <<>>
    /\ \A c \in textPending : c.id \in SupportedIds

C3_Witness ==
    /\ apiCall.id = "unknown-id"
    /\ apiCall.status = "threw"
    /\ textPending = {}

ExpectedUrl ==
    [gemini |-> "https://generativelanguage.googleapis.com/v1beta/models/gemini-pro:generateContent",
     openai |-> "https://api.openai.com/v1/chat/completions",
     claude |-> "https://api.anthropic.com/v1/messages",
     grok |-> "https://api.x.ai/v1/chat/completions",
     mistral |-> "https://api.mistral.ai/v1/chat/completions"]

ExpectedLabel ==
    [gemini |-> "Gemini", openai |-> "OpenAI", claude |-> "Claude",
     grok |-> "Grok", mistral |-> "Mistral"]

OneOwnFetch(id, fetches) ==
    /\ Len(fetches) = 1
    /\ fetches[1].url = ExpectedUrl[id]
    /\ fetches[1].adapter = ExpectedLabel[id]

(* C4: a generateScript call for one of the five ids has issued exactly    *)
(* one fetch, to that provider's endpoint through that provider's adapter, *)
(* while it is pending and after it returned or threw.                     *)
C4_ExactlyOneFetch ==
    /\ (apiCall.status # "none" /\ apiCall.id \in SupportedIds) =>
           OneOwnFetch(apiCall.id, apiCall.fetches)
    /\ \A c \in textPending :
           c.id \in SupportedIds => OneOwnFetch(c.id, c.fetches)

C4_Witness ==
    /\ apiCall.id = "grok"
    /\ apiCall.status = "threw"
    /\ Len(apiCall.fetches) = 1

(* C5: when the fetch of a call is answered with a non-success status,     *)
(* the call throws the error labelled with its provider and returns no     *)
(* text, the handler shows a destructive notification naming the provider  *)
(* it was invoked for, the displayed script stays, and no further fetch    *)
(* is issued.                                                              *)
C5_NonSuccessFails ==
    [][\A c \in textPending :
          (c \notin textPending' /\ apiCall'.http = "non-2xx") =>
              /\ apiCall'.status = "threw"
              /\ apiCall'.error = <<"Erro ao gerar roteiro com", ExpectedLabel[c.id]>>
              /\ apiCall'.text = ""
              /\ apiCall'.fetches = c.fetches
              /\ Len(c.fetches) = 1
              /\ generatedScript' = generatedScript
              /\ toast'.variant = "destructive"
              /\ toast'.description = ProviderOf(c.id).name
              /\ textPending' = textPending \ {c}
              /\ ~isLoading']_vars

C5_Witness ==
    /\ apiCall.id = "mistral"
    /\ apiCall.http = "non-2xx"
    /\ apiCall.status = "threw"
    /\ toast = ScriptFailToast("Mistral")
    /\ selectedProvider # "mistral"

NoImageDispatch ==
    /\ nreq' = nreq
    /\ inflight' = inflight
    /\ runs' = runs
    /\ \A i \in DOMAIN items :
           /\ items'[i].loading = items[i].loading
           /\ items'[i].imageUrl = items[i].imageUrl
           /\ items'[i].error = items[i].error

NoTextDispatch ==
    /\ textPending' = textPending
    /\ apiCall' = apiCall
    /\ isLoading' = isLoading

ComingSoon(text) ==
    text \in {"Integracao em breve.",
              "Integracao em breve. Forneca endpoint/documentacao para habilitar."}

(* C7 as stated: generateOne on an item while kling is selected leaves     *)
(* the item in has-error, its error holding the "integration coming soon"  *)
(* message, and not loading.                                               *)
C7_KlingStoresError ==
    [][\A i \in DOMAIN items :
          (provider = "kling" /\ ClickGenerateOne(i)) =>
              (ComingSoon(items'[i].error) /\ ~items'[i].loading)]_vars

(* C7 amended: generateOne on an item while kling is selected changes no   *)
(* item (no error is stored, the item is not loading afterwards) and       *)
(* issues no call; the "integration coming soon" message is shown as a     *)
(* destructive notification.                                               *)
C7_KlingToastOnly ==
    [][\A i \in DOMAIN items :
          (provider = "kling" /\ ClickGenerateOne(i)) =>
              /\ items' = items
              /\ ~items'[i].loading
              /\ inflight' = inflight
              /\ ComingSoon(toast'.description)
              /\ toast'.variant = "destructive"]_vars

C7_Witness ==
    /\ provider = "kling"
    /\ toast = KlingToastOne
    /\ \A i \in DOMAIN items : items[i].error = Undefined /\ ~items[i].loading

(* C8 as stated: no image call is issued in a step taken while kling is    *)
(* selected.                                                               *)
C8_NoCallWhileKling ==
    [][provider = "kling" => (nreq' = nreq /\ inflight' \subseteq inflight)]_vars

(* C8 amended: a generateOne or generateAll invoked while kling is         *)
(* selected issues no call, whatever credentials are stored, and shows     *)
(* the unavailability notification at once; the only calls issued while    *)
(* kling is selected belong to a generateAll that was invoked while        *)
(* leonardo was selected and is still running.                             *)
C8_KlingInvocationsIssueNothing ==
    [][provider = "kling" =>
          /\ (ClickOne \/ ClickGenerateAll) =>
                 /\ nreq' = nreq
                 /\ inflight' = inflight
                 /\ runs' = runs
                 /\ toast'.title = "Kling AI"
                 /\ toast'.variant = "destructive"
          /\ \A q \in inflight' \ inflight :
                 /\ q.run \in DOMAIN runs
                 /\ runs[q.run].provider = "leonardo"
                 /\ runs[q.run].status = "awaiting"]_vars

C8_Witness ==
    /\ provider = "kling"
    /\ toast = KlingToastAll
    /\ LeonardoKey # Undefined
    /\ KlingKey # Undefined
    /\ nreq = 0

(* C9: no topic item is the target of two pending image calls.             *)
C9_OnePendingPerItem ==
    \A q1 \in inflight, q2 \in inflight : q1.id = q2.id => q1 = q2

(* C10: a generateAll invocation has at most one pending image call, the   *)
(* one it issued last, and it is pending exactly while the invocation is   *)
(* awaiting.                                                               *)
C10_Sequential ==
    \A k \in DOMAIN runs :
        LET mine == {q \in inflight : q.run = k} IN
        /\ Cardinality(mine) <= 1
        /\ runs[k].status = "awaiting" <=> mine # {}
        /\ \A q \in mine : q.id = runs[k].issued[Len(runs[k].issued)]

\* a generateAll awaiting its second call after the first has completed
C10_Witness ==
    \E k \in DOMAIN runs :
        /\ Len(runs[k].issued) = 2
        /\ \E q \in inflight : q.run = k /\ q.id = runs[k].issued[2]
        /\ \A q \in inflight : q.run = k => q.id # runs[k].issued[1]

\* the state of a topic item in the per-item state machine
ItemState(it) ==
    IF it.loading THEN "loading"
    ELSE IF it.imageUrl # Undefined THEN "has-image"
    ELSE IF it.error # Undefined THEN "has-error"
    ELSE "unstarted"

ItemTransitions ==
    {<<"unstarted", "loading">>, <<"loading", "has-image">>,
     <<"loading", "has-error">>, <<"has-error", "loading">>}

(* C11: every change of an item's state is unstarted -> loading, loading   *)
(* -> has-image, loading -> has-error or has-error -> loading, and         *)
(* generateOne on an item in has-error returns it to loading with the      *)
(* error cleared.                                                          *)
C11_ItemStateMachine ==
    [][\A i \in DOMAIN items :
          /\ ItemState(items'[i]) # ItemState(items[i]) =>
                 <<ItemState(items[i]), ItemState(items'[i])>> \in ItemTransitions
          /\ (ItemState(items[i]) = "has-error" /\ ClickGenerateOne(i)
                 /\ provider = "leonardo" /\ LeonardoKey # Undefined) =>
                 (items'[i].loading /\ items'[i].error = Undefined)]_vars

(* C12: when the image call of a generateAll invocation rejects, the       *)
(* message is stored in that item's error with loading reset, and the      *)
(* invocation goes on: it issues the call for the next captured item       *)
(* lacking an image, or finishes when there is none.                       *)
C12_FailureDoesNotBlock ==
    [][\A q \in inflight, m \in ErrorMessages :
          (q.run # 0 /\ Reject(q, m)) =>
              LET done == runs[q.run].issued
                  rest == SubSeq(LackingImage(runs[q.run].snap), Len(done) + 1,
                                 Len(LackingImage(runs[q.run].snap)))
              IN  /\ \A i \in DOMAIN items' :
                         items'[i].id = q.id =>
                             /\ items'[i].error = (IF m = "" THEN "Erro" ELSE m)
                             /\ ~items'[i].loading
                  /\ IF rest = <<>>
                     THEN runs'[q.run].status = "done" /\ nreq' = nreq
                     ELSE /\ runs'[q.run].status = "awaiting"
                          /\ \E n \in inflight' \ inflight :
                                 n.run = q.run /\ n.id = rest[1]]_vars

\* only a generateAll issued calls; its first failed and its second is out
C12_Witness ==
    /\ Len(runs) = 1
    /\ runs[1].issued = <<0, 1>>
    /\ nreq = 2
    /\ items[1].error # Undefined
    /\ \E q \in inflight : q.run = 1 /\ q.id = 1

(* C14: an item's loading flag is true exactly while an image call issued  *)
(* for that item is pending.                                               *)
C14_LoadingIffPending ==
    \A i \in DOMAIN items :
        items[i].loading <=> \E q \in inflight : q.id = items[i].id

(* C18: the handler dispatches only when topic, duration and style are     *)
(* all non-empty; with a credential present and one of them empty it       *)
(* makes no API call, leaves isLoading false and shows a destructive       *)
(* notification.                                                           *)
C18_RequiredFields ==
    [][/\ textPending' \ textPending # {} =>
              (scriptData.topic # "" /\ scriptData.duration # ""
                  /\ scriptData.style # "")
       /\ (ClickGenerateScript
              /\ localStorage[ProviderOf(selectedProvider).keyName] # Undefined
              /\ (scriptData.topic = "" \/ scriptData.duration = ""
                     \/ scriptData.style = "")) =>
              /\ NoTextDispatch
              /\ ~isLoading'
              /\ toast'.variant = "destructive"]_vars

C18_Witness ==
    /\ toast = RequiredToast
    /\ localStorage[ProviderOf(selectedProvider).keyName] # Undefined
    /\ scriptData.topic # ""
    /\ scriptData.style = ""
    /\ ~isLoading
    /\ apiCall.status = "none"

(* C13: every image call carries the prompt its item holds at the moment   *)
(* the call is issued, also when the prompt was edited while generateAll   *)
(* was busy with an earlier item.                                          *)
C13_CurrentPromptSent ==
    [][\A q \in inflight' \ inflight :
          \E i \in DOMAIN items :
              items[i].id = q.id /\ q.prompt = items[i].prompt]_vars

(* C20: the completion of an image call issued for one topic changes no    *)
(* item of another topic: after a script change, the item of the new list  *)
(* that has the call's id keeps its imageUrl, error and loading.           *)
C20_NoStaleStore ==
    [][\A q \in inflight \ inflight', i \in DOMAIN items :
          (items[i].id = q.id /\ items[i].title # q.title) =>
              items'[i] = items[i]]_vars

(* C16: every call carries the credential that storage holds when the      *)
(* call is issued: an image call the key under leonardo_api_key, a text    *)
(* call the key under the selected provider's keyName; a key replaced      *)
(* between two calls is the one the later call carries.                    *)
C16_FreshCredential ==
    [][/\ \A q \in inflight' \ inflight : q.key = LeonardoKey
       /\ \A c \in textPending' \ textPending :
              c.fetches[1].key = localStorage[ProviderOf(c.id).keyName]]_vars

\* a generateAll that read k1 at its click has its second call out with
\* k2, and a text call is out with k2 after an earlier text call failed
C16_Witness ==
    /\ \E q \in inflight :
           /\ q.run = 1
           /\ runs[1].key = "k1"
           /\ runs[1].issued = <<0, 1>>
           /\ q.id = 1
           /\ q.key = "k2"
    /\ \E c \in textPending : c.fetches[1].key = "k2"
    /\ generatedScript = ""
    /\ isLoading

(* C17: the topics extracted from a script are at most 20 and pairwise     *)
(* different, the items show exactly them in order, and the script         *)
(* "1. Intro\n2. Main Point\n3. Outro" gives Intro, Main Point, Outro.     *)
C17_CappedDistinctTopics ==
    LET t == extractTopics(script) IN
    /\ Len(t) <= 20
    /\ \A i, j \in DOMAIN t : i # j => t[i] # t[j]
    /\ [i \in DOMAIN items |-> items[i].title] = t
    /\ script = "1. Intro\n2. Main Point\n3. Outro" =>
           t = <<"Intro", "Main Point", "Outro">>

\* a script of 21 numbered sections was cut to its first 20
C17_Witness ==
    /\ script = LongScript
    /\ Len(SplitLines(script)) = 21
    /\ Len(items) = 20
    /\ items[20].title = "Topic 20"

\* some line of the script matches one of the three patterns
LineMatches(s) ==
    \E i \in DOMAIN SplitLines(s) : PatternMatch(trim(SplitLines(s)[i])) > 0

\* the text of a paragraph before its first '.', '!' or '?'
SentenceOf(p) ==
    LET ends == {i \in 1..Len(p) : Char(p, i) \in {".", "!", "?"}}
    IN  trim(IF ends = {} THEN p ELSE Take(p, MinOf(ends) - 1))

(* C19: the paragraph fallback is used only for a script none of whose     *)
(* lines matches a heading, numbered or labelled pattern, and then the     *)
(* topics are at most six, each the first sentence of one of the first     *)
(* six paragraphs.                                                         *)
C19_FallbackOnlyUnmatched ==
    FallbackUsed(script) =>
        LET t == extractTopics(script)
            ps == Take(TrimmedNonEmpty(SplitParagraphs(script)), 6)
        IN  /\ ~LineMatches(script)
            /\ Len(t) <= 6
            /\ \A i \in DOMAIN t : \E k \in DOMAIN ps : t[i] = SentenceOf(ps[k])

\* text occurs in s, character for character
Contains(s, text) ==
    \E i \in 1..(Len(s) - Len(text) + 1) : SubSeq(s, i, i + Len(text) - 1) = text

\* the six sections the prompt asks for, as the template names them
SectionLabels ==
    {"Hook inicial", "Introdução", "Desenvolvimento do conteúdo principal",
     "Call-to-action", "Conclusão", "Outro"}

(* C15: the prompt of every dispatched call contains each field of the     *)
(* form as entered (topic, duration, style, styleKeywords, language,       *)
(* audience, additionalInfo) and the six section labels.                   *)
C15_PromptEmbedsEveryField ==
    [][\A c \in textPending' \ textPending :
          /\ scriptData.topic # "" /\ scriptData.duration # ""
          /\ scriptData.style # ""
          /\ \A f \in ScriptDataFields :
                 Contains(c.fetches[1].prompt, scriptData[f])
          /\ \A l \in SectionLabels : Contains(c.fetches[1].prompt, l)]_vars

(* C21: isLoading is true exactly while a text-generation call is pending; *)
(* the step that completes a call, with a result or with a failure,        *)
(* resets it and enables the generate button again; and never more than    *)
(* one text-generation call is pending.                                    *)
C21_LoadingIffOneCall ==
    [][/\ isLoading' <=> textPending' # {}
       /\ Cardinality(textPending') <= 1
       /\ textPending' \ textPending # {} => (~isLoading /\ textPending = {})
       /\ textPending \ textPending' # {} =>
              (~isLoading' /\ ~GenerateDisabled' /\ apiCall'.status # "pending")]_vars

\* a call failed and left the button enabled, and the next call is pending
C21_Witness ==
    /\ isLoading
    /\ Cardinality(textPending) = 1
    /\ apiCall.status = "pending"
    /\ toast.title = "Erro ao gerar roteiro"

(* C22: a text generation that fails (unsupported provider, non-success    *)
(* status, malformed response) leaves generatedScript as it was;           *)
(* generatedScript changes only to the text of a call that succeeded.      *)
C22_FailureKeepsScript ==
    [][/\ generatedScript' # generatedScript =>
              /\ apiCall'.status = "returned"
              /\ apiCall'.text \in Texts
              /\ generatedScript' = apiCall'.text
       /\ (apiCall' # apiCall /\ apiCall'.status = "threw") =>
              generatedScript' = generatedScript]_vars
====
